---- MODULE Spec2Model ----
(***************************************************************************)
(* Model of sessionctx/variable/varsutil.go: the session/system variable   *)
(* registry (get/set orchestration, scope validation, the value validator) *)
(* and the timestamp helpers GoTimeToTS and setSnapshotTS.                 *)
(*                                                                         *)
(* Go strings are modelled as sequences of one-character strings, so that  *)
(* strings.ToLower, strings.EqualFold and the strconv parsers are computed *)
(* character by character.  Integers parsed by strconv are kept as decimal *)
(* digit sequences, and 64-bit machine words as four 16-bit limbs (least   *)
(* significant first), so that the 64-bit ranges are exact.                *)
(***************************************************************************)
EXTENDS Integers, Sequences, FiniteSets, TLC

(* ---------------------------------------------------------------------- *)
(* Bounds of the model                                                     *)
(* ---------------------------------------------------------------------- *)
MaxWarnings == 1

(* ---------------------------------------------------------------------- *)
(* Go strings                                                              *)
(* ---------------------------------------------------------------------- *)
(* unicode.ToLower on the ASCII letters *)
UpperToLower ==
     "A" :> "a" @@ "B" :> "b" @@ "C" :> "c" @@ "D" :> "d" @@ "E" :> "e"
  @@ "F" :> "f" @@ "G" :> "g" @@ "H" :> "h" @@ "I" :> "i" @@ "J" :> "j"
  @@ "K" :> "k" @@ "L" :> "l" @@ "M" :> "m" @@ "N" :> "n" @@ "O" :> "o"
  @@ "P" :> "p" @@ "Q" :> "q" @@ "R" :> "r" @@ "S" :> "s" @@ "T" :> "t"
  @@ "U" :> "u" @@ "V" :> "v" @@ "W" :> "w" @@ "X" :> "x" @@ "Y" :> "y"
  @@ "Z" :> "z"

ToLowerCh(c) == IF c \in DOMAIN UpperToLower THEN UpperToLower[c] ELSE c

ToLower(s) == [i \in 1..Len(s) |-> ToLowerCh(s[i])]

(* strings.EqualFold, on ASCII strings *)
EqualFold(a, b) == ToLower(a) = ToLower(b)

DigitValue ==
     "0" :> 0 @@ "1" :> 1 @@ "2" :> 2 @@ "3" :> 3 @@ "4" :> 4 @@ "5" :> 5
  @@ "6" :> 6 @@ "7" :> 7 @@ "8" :> 8 @@ "9" :> 9

DigitChars == <<"0","1","2","3","4","5","6","7","8","9">>

IsDigit(c) == c \in DOMAIN DigitValue

DigitVal(c) == DigitValue[c]

(* ---------------------------------------------------------------------- *)
(* Natural numbers as decimal digit sequences without leading zeros        *)
(* (the empty sequence is 0), and signed integers over them                *)
(* ---------------------------------------------------------------------- *)
RECURSIVE StripZeros(_)
StripZeros(d) ==
  IF d = <<>> THEN <<>> ELSE IF d[1] = 0 THEN StripZeros(Tail(d)) ELSE d

RECURSIVE LexLT(_, _)
LexLT(a, b) ==
  IF a = <<>> THEN FALSE
  ELSE IF a[1] # b[1] THEN a[1] < b[1] ELSE LexLT(Tail(a), Tail(b))

NatLT(a, b) == Len(a) < Len(b) \/ (Len(a) = Len(b) /\ LexLT(a, b))

MaxUint64 == <<1,8,4,4,6,7,4,4,0,7,3,7,0,9,5,5,1,6,1,5>>
MaxInt64 == <<9,2,2,3,3,7,2,0,3,6,8,5,4,7,7,5,8,0,7>>
MinInt64Mag == <<9,2,2,3,3,7,2,0,3,6,8,5,4,7,7,5,8,0,8>>

IntOf(neg, mag) == [neg |-> neg /\ mag # <<>>, mag |-> mag]
Lit(mag) == IntOf(FALSE, StripZeros(mag))

IntLT(x, y) ==
  IF x.neg /\ ~y.neg THEN TRUE
  ELSE IF ~x.neg /\ y.neg THEN FALSE
  ELSE IF x.neg THEN NatLT(y.mag, x.mag) ELSE NatLT(x.mag, y.mag)

IntGT(x, y) == IntLT(y, x)

(* strconv.ParseUint(s, 10, 64): no sign, at least one digit, digits only, *)
(* and the value at most 2^64-1                                            *)
ParseUint(s) ==
  IF s = <<>> \/ \E i \in 1..Len(s) : ~IsDigit(s[i])
  THEN [val |-> Lit(<<>>), err |-> "ErrSyntax"]
  ELSE LET mag == StripZeros([i \in 1..Len(s) |-> DigitVal(s[i])])
       IN IF NatLT(MaxUint64, mag)
          THEN [val |-> Lit(MaxUint64), err |-> "ErrRange"]
          ELSE [val |-> Lit(mag), err |-> "nil"]

(* strconv.ParseInt(s, 10, 64): optional sign, then ParseUint, then the    *)
(* signed 64-bit range check                                               *)
ParseInt(s) ==
  IF s = <<>> THEN [val |-> Lit(<<>>), err |-> "ErrSyntax"]
  ELSE LET neg == s[1] = "-"
           body == IF s[1] = "+" \/ s[1] = "-" THEN Tail(s) ELSE s
           un == ParseUint(body)
       IN IF un.err = "ErrSyntax" THEN [val |-> Lit(<<>>), err |-> "ErrSyntax"]
          ELSE IF ~neg /\ (un.err = "ErrRange" \/ NatLT(MaxInt64, un.val.mag))
                 THEN [val |-> Lit(MaxInt64), err |-> "ErrRange"]
          ELSE IF neg /\ (un.err = "ErrRange" \/ NatLT(MinInt64Mag, un.val.mag))
                 THEN [val |-> IntOf(TRUE, MinInt64Mag), err |-> "ErrRange"]
          ELSE [val |-> IntOf(neg, un.val.mag), err |-> "nil"]

(* strconv.Atoi on a 64-bit build: same result as ParseInt(s, 10, 0)       *)
Atoi(s) == ParseInt(s)

(* ---------------------------------------------------------------------- *)
(* Variable Catalog: the names used by varsutil.go, their scope and their  *)
(* compiled-in default                                                     *)
(* ---------------------------------------------------------------------- *)
ScopeNone == 0
ScopeGlobal == 1
ScopeSession == 2

DefaultWeekFormat == <<"d","e","f","a","u","l","t","_","w","e","e","k","_","f","o","r","m","a","t">>
DelayKeyWrite == <<"d","e","l","a","y","_","k","e","y","_","w","r","i","t","e">>
FlushTime == <<"f","l","u","s","h","_","t","i","m","e">>
GroupConcatMaxLen == <<"g","r","o","u","p","_","c","o","n","c","a","t","_","m","a","x","_","l","e","n">>
InteractiveTimeout == <<"i","n","t","e","r","a","c","t","i","v","e","_","t","i","m","e","o","u","t">>
MaxConnections == <<"m","a","x","_","c","o","n","n","e","c","t","i","o","n","s">>
MaxSortLength == <<"m","a","x","_","s","o","r","t","_","l","e","n","g","t","h">>
MaxSpRecursionDepth == <<"m","a","x","_","s","p","_","r","e","c","u","r","s","i","o","n","_","d","e","p","t","h">>
OldPasswords == <<"o","l","d","_","p","a","s","s","w","o","r","d","s">>
MaxUserConnections == <<"m","a","x","_","u","s","e","r","_","c","o","n","n","e","c","t","i","o","n","s">>
SessionTrackGtids == <<"s","e","s","s","i","o","n","_","t","r","a","c","k","_","g","t","i","d","s">>
TimeZone == <<"t","i","m","e","_","z","o","n","e">>
WarningCount == <<"w","a","r","n","i","n","g","_","c","o","u","n","t">>
ErrorCount == <<"e","r","r","o","r","_","c","o","u","n","t">>
GeneralLog == <<"g","e","n","e","r","a","l","_","l","o","g">>
AvoidTemporalUpgrade == <<"a","v","o","i","d","_","t","e","m","p","o","r","a","l","_","u","p","g","r","a","d","e">>
BigTables == <<"b","i","g","_","t","a","b","l","e","s">>
CheckProxyUsers == <<"c","h","e","c","k","_","p","r","o","x","y","_","u","s","e","r","s">>
CoreFile == <<"c","o","r","e","_","f","i","l","e">>
EndMakersInJSON == <<"e","n","d","_","m","a","r","k","e","r","s","_","i","n","_","j","s","o","n">>
SQLLogBin == <<"s","q","l","_","l","o","g","_","b","i","n">>
OfflineMode == <<"o","f","f","l","i","n","e","_","m","o","d","e">>
PseudoSlaveMode == <<"p","s","e","u","d","o","_","s","l","a","v","e","_","m","o","d","e">>
LowPriorityUpdates == <<"l","o","w","_","p","r","i","o","r","i","t","y","_","u","p","d","a","t","e","s">>
SkipNameResolve == <<"s","k","i","p","_","n","a","m","e","_","r","e","s","o","l","v","e">>
ForeignKeyChecks == <<"f","o","r","e","i","g","n","_","k","e","y","_","c","h","e","c","k","s">>
SQLSafeUpdates == <<"s","q","l","_","s","a","f","e","_","u","p","d","a","t","e","s">>
AutocommitVar == <<"a","u","t","o","c","o","m","m","i","t">>
TiDBImportingData == <<"t","i","d","b","_","i","m","p","o","r","t","_","d","a","t","a">>
TiDBSkipUTF8Check == <<"t","i","d","b","_","s","k","i","p","_","u","t","f","8","_","c","h","e","c","k">>
TiDBOptAggPushDown == <<"t","i","d","b","_","o","p","t","_","a","g","g","_","p","u","s","h","_","d","o","w","n">>
TiDBOptInSubqUnFolding == <<"t","i","d","b","_","o","p","t","_","i","n","s","u","b","q","u","e","r","y","_","u","n","f","o","l","d">>
TiDBEnableTablePartition == <<"t","i","d","b","_","e","n","a","b","l","e","_","t","a","b","l","e","_","p","a","r","t","i","t","i","o","n">>
TiDBBatchInsert == <<"t","i","d","b","_","b","a","t","c","h","_","i","n","s","e","r","t">>
TiDBDisableTxnAutoRetry == <<"t","i","d","b","_","d","i","s","a","b","l","e","_","t","x","n","_","a","u","t","o","_","r","e","t","r","y">>
TiDBEnableStreaming == <<"t","i","d","b","_","e","n","a","b","l","e","_","s","t","r","e","a","m","i","n","g">>
TiDBBatchDelete == <<"t","i","d","b","_","b","a","t","c","h","_","d","e","l","e","t","e">>
TiDBIndexLookupConcurrency == <<"t","i","d","b","_","i","n","d","e","x","_","l","o","o","k","u","p","_","c","o","n","c","u","r","r","e","n","c","y">>
TiDBIndexLookupJoinConcurrency == <<"t","i","d","b","_","i","n","d","e","x","_","l","o","o","k","u","p","_","j","o","i","n","_","c","o","n","c","u","r","r","e","n","c","y">>
TiDBIndexJoinBatchSize == <<"t","i","d","b","_","i","n","d","e","x","_","j","o","i","n","_","b","a","t","c","h","_","s","i","z","e">>
TiDBIndexLookupSize == <<"t","i","d","b","_","i","n","d","e","x","_","l","o","o","k","u","p","_","s","i","z","e">>
TiDBHashJoinConcurrency == <<"t","i","d","b","_","h","a","s","h","_","j","o","i","n","_","c","o","n","c","u","r","r","e","n","c","y">>
TiDBHashAggPartialConcurrency == <<"t","i","d","b","_","h","a","s","h","a","g","g","_","p","a","r","t","i","a","l","_","c","o","n","c","u","r","r","e","n","c","y">>
TiDBHashAggFinalConcurrency == <<"t","i","d","b","_","h","a","s","h","a","g","g","_","f","i","n","a","l","_","c","o","n","c","u","r","r","e","n","c","y">>
TiDBDistSQLScanConcurrency == <<"t","i","d","b","_","d","i","s","t","s","q","l","_","s","c","a","n","_","c","o","n","c","u","r","r","e","n","c","y">>
TiDBIndexSerialScanConcurrency == <<"t","i","d","b","_","i","n","d","e","x","_","s","e","r","i","a","l","_","s","c","a","n","_","c","o","n","c","u","r","r","e","n","c","y">>
TiDBDDLReorgWorkerCount == <<"t","i","d","b","_","d","d","l","_","r","e","o","r","g","_","w","o","r","k","e","r","_","c","n","t">>
TiDBBackoffLockFast == <<"t","i","d","b","_","b","a","c","k","o","f","f","_","l","o","c","k","_","f","a","s","t">>
TiDBMaxChunkSize == <<"t","i","d","b","_","m","a","x","_","c","h","u","n","k","_","s","i","z","e">>
TiDBDMLBatchSize == <<"t","i","d","b","_","d","m","l","_","b","a","t","c","h","_","s","i","z","e">>
TiDBOptimizerSelectivityLevel == <<"t","i","d","b","_","o","p","t","i","m","i","z","e","r","_","s","e","l","e","c","t","i","v","i","t","y","_","l","e","v","e","l">>
TiDBGeneralLog == <<"t","i","d","b","_","g","e","n","e","r","a","l","_","l","o","g">>
TiDBProjectionConcurrency == <<"t","i","d","b","_","p","r","o","j","e","c","t","i","o","n","_","c","o","n","c","u","r","r","e","n","c","y">>
TIDBMemQuotaQuery == <<"t","i","d","b","_","m","e","m","_","q","u","o","t","a","_","q","u","e","r","y">>
TIDBMemQuotaHashJoin == <<"t","i","d","b","_","m","e","m","_","q","u","o","t","a","_","h","a","s","h","j","o","i","n">>
TIDBMemQuotaMergeJoin == <<"t","i","d","b","_","m","e","m","_","q","u","o","t","a","_","m","e","r","g","e","j","o","i","n">>
TIDBMemQuotaSort == <<"t","i","d","b","_","m","e","m","_","q","u","o","t","a","_","s","o","r","t">>
TIDBMemQuotaTopn == <<"t","i","d","b","_","m","e","m","_","q","u","o","t","a","_","t","o","p","n">>
TIDBMemQuotaIndexLookupReader == <<"t","i","d","b","_","m","e","m","_","q","u","o","t","a","_","i","n","d","e","x","l","o","o","k","u","p","r","e","a","d","e","r">>
TIDBMemQuotaIndexLookupJoin == <<"t","i","d","b","_","m","e","m","_","q","u","o","t","a","_","i","n","d","e","x","l","o","o","k","u","p","j","o","i","n">>
TIDBMemQuotaNestedLoopApply == <<"t","i","d","b","_","m","e","m","_","q","u","o","t","a","_","n","e","s","t","e","d","l","o","o","p","a","p","p","l","y">>
TiDBRetryLimit == <<"t","i","d","b","_","r","e","t","r","y","_","l","i","m","i","t">>
TiDBCurrentTS == <<"t","i","d","b","_","c","u","r","r","e","n","t","_","t","s">>
TiDBConfig == <<"t","i","d","b","_","c","o","n","f","i","g">>
VersionVar == <<"v","e","r","s","i","o","n">>

SysVar(scope, name, value) == [Scope |-> scope, Name |-> name, Value |-> value]

(* SysVars is the catalog map, keyed by the (lowercase) variable name *)
SysVars ==
     DefaultWeekFormat :> SysVar(ScopeGlobal + ScopeSession, DefaultWeekFormat, <<"0">>)
  @@ DelayKeyWrite :> SysVar(ScopeGlobal, DelayKeyWrite, <<"O","N">>)
  @@ FlushTime :> SysVar(ScopeGlobal, FlushTime, <<"0">>)
  @@ GroupConcatMaxLen :> SysVar(ScopeGlobal + ScopeSession, GroupConcatMaxLen, <<"1","0","2","4">>)
  @@ InteractiveTimeout :> SysVar(ScopeGlobal + ScopeSession, InteractiveTimeout, <<"2","8","8","0","0">>)
  @@ MaxConnections :> SysVar(ScopeGlobal, MaxConnections, <<"1","5","1">>)
  @@ MaxSortLength :> SysVar(ScopeGlobal + ScopeSession, MaxSortLength, <<"1","0","2","4">>)
  @@ MaxSpRecursionDepth :> SysVar(ScopeGlobal + ScopeSession, MaxSpRecursionDepth, <<"0">>)
  @@ OldPasswords :> SysVar(ScopeGlobal + ScopeSession, OldPasswords, <<"0">>)
  @@ MaxUserConnections :> SysVar(ScopeGlobal + ScopeSession, MaxUserConnections, <<"0">>)
  @@ SessionTrackGtids :> SysVar(ScopeGlobal + ScopeSession, SessionTrackGtids, <<"O","F","F">>)
  @@ TimeZone :> SysVar(ScopeGlobal + ScopeSession, TimeZone, <<"S","Y","S","T","E","M">>)
  @@ WarningCount :> SysVar(ScopeSession, WarningCount, <<"0">>)
  @@ ErrorCount :> SysVar(ScopeSession, ErrorCount, <<"0">>)
  @@ GeneralLog :> SysVar(ScopeGlobal, GeneralLog, <<"0">>)
  @@ AvoidTemporalUpgrade :> SysVar(ScopeGlobal, AvoidTemporalUpgrade, <<"O","F","F">>)
  @@ BigTables :> SysVar(ScopeGlobal + ScopeSession, BigTables, <<"O","F","F">>)
  @@ CheckProxyUsers :> SysVar(ScopeGlobal, CheckProxyUsers, <<"O","F","F">>)
  @@ CoreFile :> SysVar(ScopeNone, CoreFile, <<"O","F","F">>)
  @@ EndMakersInJSON :> SysVar(ScopeGlobal + ScopeSession, EndMakersInJSON, <<"O","F","F">>)
  @@ SQLLogBin :> SysVar(ScopeGlobal + ScopeSession, SQLLogBin, <<"O","N">>)
  @@ OfflineMode :> SysVar(ScopeGlobal, OfflineMode, <<"O","F","F">>)
  @@ PseudoSlaveMode :> SysVar(ScopeSession, PseudoSlaveMode, <<>>)
  @@ LowPriorityUpdates :> SysVar(ScopeGlobal + ScopeSession, LowPriorityUpdates, <<"O","F","F">>)
  @@ SkipNameResolve :> SysVar(ScopeNone, SkipNameResolve, <<"0">>)
  @@ ForeignKeyChecks :> SysVar(ScopeGlobal + ScopeSession, ForeignKeyChecks, <<"O","F","F">>)
  @@ SQLSafeUpdates :> SysVar(ScopeGlobal + ScopeSession, SQLSafeUpdates, <<"O","F","F">>)
  @@ AutocommitVar :> SysVar(ScopeGlobal + ScopeSession, AutocommitVar, <<"1">>)
  @@ TiDBImportingData :> SysVar(ScopeSession, TiDBImportingData, <<"0">>)
  @@ TiDBSkipUTF8Check :> SysVar(ScopeSession, TiDBSkipUTF8Check, <<"0">>)
  @@ TiDBOptAggPushDown :> SysVar(ScopeSession, TiDBOptAggPushDown, <<"0">>)
  @@ TiDBOptInSubqUnFolding :> SysVar(ScopeSession, TiDBOptInSubqUnFolding, <<"0">>)
  @@ TiDBEnableTablePartition :> SysVar(ScopeSession, TiDBEnableTablePartition, <<"0">>)
  @@ TiDBBatchInsert :> SysVar(ScopeSession, TiDBBatchInsert, <<"0">>)
  @@ TiDBDisableTxnAutoRetry :> SysVar(ScopeGlobal + ScopeSession, TiDBDisableTxnAutoRetry, <<"0">>)
  @@ TiDBEnableStreaming :> SysVar(ScopeSession, TiDBEnableStreaming, <<"0">>)
  @@ TiDBBatchDelete :> SysVar(ScopeSession, TiDBBatchDelete, <<"0">>)
  @@ TiDBIndexLookupConcurrency :> SysVar(ScopeSession, TiDBIndexLookupConcurrency, <<"4">>)
  @@ TiDBIndexLookupJoinConcurrency :> SysVar(ScopeSession, TiDBIndexLookupJoinConcurrency, <<"4">>)
  @@ TiDBIndexJoinBatchSize :> SysVar(ScopeSession, TiDBIndexJoinBatchSize, <<"2","5","0","0","0">>)
  @@ TiDBIndexLookupSize :> SysVar(ScopeSession, TiDBIndexLookupSize, <<"2","0","0","0","0">>)
  @@ TiDBHashJoinConcurrency :> SysVar(ScopeSession, TiDBHashJoinConcurrency, <<"5">>)
  @@ TiDBHashAggPartialConcurrency :> SysVar(ScopeSession, TiDBHashAggPartialConcurrency, <<"4">>)
  @@ TiDBHashAggFinalConcurrency :> SysVar(ScopeSession, TiDBHashAggFinalConcurrency, <<"4">>)
  @@ TiDBDistSQLScanConcurrency :> SysVar(ScopeSession, TiDBDistSQLScanConcurrency, <<"1","5">>)
  @@ TiDBIndexSerialScanConcurrency :> SysVar(ScopeSession, TiDBIndexSerialScanConcurrency, <<"1">>)
  @@ TiDBDDLReorgWorkerCount :> SysVar(ScopeSession, TiDBDDLReorgWorkerCount, <<"1","6">>)
  @@ TiDBBackoffLockFast :> SysVar(ScopeSession, TiDBBackoffLockFast, <<"1","0","0">>)
  @@ TiDBMaxChunkSize :> SysVar(ScopeSession, TiDBMaxChunkSize, <<"3","2">>)
  @@ TiDBDMLBatchSize :> SysVar(ScopeSession, TiDBDMLBatchSize, <<"2","0","0","0","0">>)
  @@ TiDBOptimizerSelectivityLevel :> SysVar(ScopeSession, TiDBOptimizerSelectivityLevel, <<"0">>)
  @@ TiDBGeneralLog :> SysVar(ScopeSession, TiDBGeneralLog, <<"0">>)
  @@ TiDBProjectionConcurrency :> SysVar(ScopeSession, TiDBProjectionConcurrency, <<"4">>)
  @@ TIDBMemQuotaQuery :> SysVar(ScopeSession, TIDBMemQuotaQuery, <<"3","4","3","5","9","7","3","8","3","6","8">>)
  @@ TIDBMemQuotaHashJoin :> SysVar(ScopeSession, TIDBMemQuotaHashJoin, <<"3","4","3","5","9","7","3","8","3","6","8">>)
  @@ TIDBMemQuotaMergeJoin :> SysVar(ScopeSession, TIDBMemQuotaMergeJoin, <<"3","4","3","5","9","7","3","8","3","6","8">>)
  @@ TIDBMemQuotaSort :> SysVar(ScopeSession, TIDBMemQuotaSort, <<"3","4","3","5","9","7","3","8","3","6","8">>)
  @@ TIDBMemQuotaTopn :> SysVar(ScopeSession, TIDBMemQuotaTopn, <<"3","4","3","5","9","7","3","8","3","6","8">>)
  @@ TIDBMemQuotaIndexLookupReader :> SysVar(ScopeSession, TIDBMemQuotaIndexLookupReader, <<"3","4","3","5","9","7","3","8","3","6","8">>)
  @@ TIDBMemQuotaIndexLookupJoin :> SysVar(ScopeSession, TIDBMemQuotaIndexLookupJoin, <<"3","4","3","5","9","7","3","8","3","6","8">>)
  @@ TIDBMemQuotaNestedLoopApply :> SysVar(ScopeSession, TIDBMemQuotaNestedLoopApply, <<"3","4","3","5","9","7","3","8","3","6","8">>)
  @@ TiDBRetryLimit :> SysVar(ScopeGlobal + ScopeSession, TiDBRetryLimit, <<"1","0">>)
  @@ TiDBCurrentTS :> SysVar(ScopeSession, TiDBCurrentTS, <<"0">>)
  @@ TiDBConfig :> SysVar(ScopeSession, TiDBConfig, <<>>)
  @@ VersionVar :> SysVar(ScopeNone, VersionVar, <<"5",".","7",".","1","0","-","T","i","D","B">>)

(* SysVars[name] # nil *)
Cataloged(name) == name \in DOMAIN SysVars

(* GetSysVar lowercases the name before the map lookup; it is applied only *)
(* where GetSysVarExists holds (a nil result otherwise)                     *)
GetSysVarExists(name) == Cataloged(ToLower(name))
GetSysVar(name) == SysVars[ToLower(name)]

(* sysVar.Scope & ScopeGlobal on the two scope bits *)
ScopeHasGlobal(scope) == scope % 2 = 1

(* ---------------------------------------------------------------------- *)
(* ValidateSetSystemVar                                                    *)
(* The result carries the returned string, the error code ("nil" for a nil *)
(* error) and the warnings the call appends to vars.StmtCtx.               *)
(* ---------------------------------------------------------------------- *)
Accept(value) == [val |-> value, err |-> "nil", warn |-> <<>>]
Reject(value, err) == [val |-> value, err |-> err, warn |-> <<>>]
Truncate(name, value, bound) ==
  [val |-> bound, err |-> "nil",
   warn |-> <<[code |-> "ErrTruncatedWrongValue", name |-> name, value |-> value]>>]

BoolOnOffNames ==
  { GeneralLog, AvoidTemporalUpgrade, BigTables, CheckProxyUsers, CoreFile, EndMakersInJSON,
    SQLLogBin, OfflineMode, PseudoSlaveMode, LowPriorityUpdates, SkipNameResolve,
    ForeignKeyChecks, SQLSafeUpdates }

BoolPassNames ==
  { AutocommitVar, TiDBImportingData, TiDBSkipUTF8Check, TiDBOptAggPushDown,
    TiDBOptInSubqUnFolding, TiDBEnableTablePartition, TiDBBatchInsert,
    TiDBDisableTxnAutoRetry, TiDBEnableStreaming, TiDBBatchDelete }

PositiveIntNames ==
  { TiDBIndexLookupConcurrency, TiDBIndexLookupJoinConcurrency, TiDBIndexJoinBatchSize,
    TiDBIndexLookupSize, TiDBHashJoinConcurrency, TiDBHashAggPartialConcurrency,
    TiDBHashAggFinalConcurrency, TiDBDistSQLScanConcurrency,
    TiDBIndexSerialScanConcurrency, TiDBDDLReorgWorkerCount, TiDBBackoffLockFast,
    TiDBMaxChunkSize, TiDBDMLBatchSize, TiDBOptimizerSelectivityLevel, TiDBGeneralLog }

Int64Names ==
  { TiDBProjectionConcurrency, TIDBMemQuotaQuery, TIDBMemQuotaHashJoin,
    TIDBMemQuotaMergeJoin, TIDBMemQuotaSort, TIDBMemQuotaTopn,
    TIDBMemQuotaIndexLookupReader, TIDBMemQuotaIndexLookupJoin,
    TIDBMemQuotaNestedLoopApply, TiDBRetryLimit }

ValidateSetSystemVar(name, value) ==
  IF EqualFold(value, <<"D","E","F","A","U","L","T">>) THEN
    IF GetSysVarExists(name) THEN Accept(GetSysVar(name).Value)
    ELSE Reject(value, "UnknownSystemVar")
  ELSE IF name = DefaultWeekFormat THEN
    LET p == Atoi(value) IN
    IF p.err # "nil" THEN Reject(value, "ErrWrongTypeForVar")
    ELSE IF IntLT(p.val, Lit(<<0>>)) THEN Truncate(name, value, <<"0">>)
    ELSE IF IntGT(p.val, Lit(<<7>>)) THEN Truncate(name, value, <<"7">>)
    ELSE Accept(value)
  ELSE IF name = DelayKeyWrite THEN
    IF EqualFold(value, <<"O","N">>) \/ value = <<"1">> THEN Accept(<<"O","N">>)
    ELSE IF EqualFold(value, <<"O","F","F">>) \/ value = <<"0">> THEN Accept(<<"O","F","F">>)
    ELSE IF EqualFold(value, <<"A","L","L">>) \/ value = <<"2">> THEN Accept(<<"A","L","L">>)
    ELSE Reject(value, "ErrWrongValueForVar")
  ELSE IF name = FlushTime THEN
    LET p == Atoi(value) IN
    IF p.err # "nil" THEN Reject(value, "ErrWrongTypeForVar")
    ELSE IF IntLT(p.val, Lit(<<0>>)) THEN Truncate(name, value, <<"0">>)
    ELSE Accept(value)
  ELSE IF name = GroupConcatMaxLen THEN
    LET p == ParseUint(value) IN
    IF p.err # "nil" THEN Reject(value, "ErrWrongTypeForVar")
    ELSE IF IntLT(p.val, Lit(<<4>>)) THEN Truncate(name, value, <<"4">>)
    ELSE IF IntGT(p.val, Lit(<<1,8,4,4,6,7,4,4,0,7,3,7,0,9,5,5,1,6,1,5>>))
      THEN Truncate(name, value, <<"1","8","4","4","6","7","4","4","0","7","3","7","0","9","5","5","1","6","1","5">>)
    ELSE Accept(value)
  ELSE IF name = InteractiveTimeout THEN
    LET p == Atoi(value) IN
    IF p.err # "nil" THEN Reject(value, "ErrWrongTypeForVar")
    ELSE IF IntLT(p.val, Lit(<<1>>)) THEN Truncate(name, value, <<"1">>)
    ELSE Accept(value)
  ELSE IF name = MaxConnections THEN
    LET p == Atoi(value) IN
    IF p.err # "nil" THEN Reject(value, "ErrWrongTypeForVar")
    ELSE IF IntLT(p.val, Lit(<<1>>)) THEN Truncate(name, value, <<"1">>)
    ELSE IF IntGT(p.val, Lit(<<1,0,0,0,0,0>>)) THEN Truncate(name, value, <<"1","0","0","0","0","0">>)
    ELSE Accept(value)
  ELSE IF name = MaxSortLength THEN
    LET p == ParseInt(value) IN
    IF p.err # "nil" THEN Reject(value, "ErrWrongTypeForVar")
    ELSE IF IntLT(p.val, Lit(<<4>>)) THEN Truncate(name, value, <<"4">>)
    ELSE IF IntGT(p.val, Lit(<<8,3,8,8,6,0,8>>)) THEN Truncate(name, value, <<"8","3","8","8","6","0","8">>)
    ELSE Accept(value)
  ELSE IF name = MaxSpRecursionDepth THEN
    LET p == ParseInt(value) IN
    IF p.err # "nil" THEN Reject(value, "ErrWrongTypeForVar")
    ELSE IF IntLT(p.val, Lit(<<0>>)) THEN Truncate(name, value, <<"0">>)
    ELSE IF IntGT(p.val, Lit(<<2,5,5>>)) THEN Truncate(name, value, <<"2","5","5">>)
    ELSE Accept(value)
  ELSE IF name = OldPasswords THEN
    LET p == Atoi(value) IN
    IF p.err # "nil" THEN Reject(value, "ErrWrongTypeForVar")
    ELSE IF IntLT(p.val, Lit(<<0>>)) THEN Truncate(name, value, <<"0">>)
    ELSE IF IntGT(p.val, Lit(<<2>>)) THEN Truncate(name, value, <<"2">>)
    ELSE Accept(value)
  ELSE IF name = MaxUserConnections THEN
    LET p == ParseUint(value) IN
    IF p.err # "nil" THEN Reject(value, "ErrWrongTypeForVar")
    ELSE IF IntLT(p.val, Lit(<<0>>)) THEN Truncate(name, value, <<"0">>)
    ELSE IF IntGT(p.val, Lit(<<4,2,9,4,9,6,7,2,9,5>>)) THEN Truncate(name, value, <<"4","2","9","4","9","6","7","2","9","5">>)
    ELSE Accept(value)
  ELSE IF name = SessionTrackGtids THEN
    IF EqualFold(value, <<"O","F","F">>) \/ value = <<"0">> THEN Accept(<<"O","F","F">>)
    ELSE IF EqualFold(value, <<"O","W","N","_","G","T","I","D">>) \/ value = <<"1">> THEN Accept(<<"O","W","N","_","G","T","I","D">>)
    ELSE IF EqualFold(value, <<"A","L","L","_","G","T","I","D","S">>) \/ value = <<"2">> THEN Accept(<<"A","L","L","_","G","T","I","D","S">>)
    ELSE Reject(value, "ErrWrongValueForVar")
  ELSE IF name = TimeZone THEN
    IF EqualFold(value, <<"S","Y","S","T","E","M">>) THEN Accept(<<"S","Y","S","T","E","M">>) ELSE Accept(value)
  ELSE IF name \in {WarningCount, ErrorCount} THEN
    Reject(value, "ErrReadOnly")
  ELSE IF name \in BoolOnOffNames THEN
    IF EqualFold(value, <<"O","N">>) \/ value = <<"1">> THEN Accept(<<"1">>)
    ELSE IF EqualFold(value, <<"O","F","F">>) \/ value = <<"0">> THEN Accept(<<"0">>)
    ELSE Reject(value, "ErrWrongValueForVar")
  ELSE IF name \in BoolPassNames THEN
    IF EqualFold(value, <<"O","N">>) \/ value = <<"1">> \/ EqualFold(value, <<"O","F","F">>) \/ value = <<"0">>
    THEN Accept(value)
    ELSE Reject(value, "ErrWrongValueForVar")
  ELSE IF name \in PositiveIntNames THEN
    LET p == Atoi(value) IN
    IF p.err # "nil" THEN Reject(value, "ErrWrongTypeForVar")
    ELSE IF ~IntGT(p.val, Lit(<<0>>)) THEN Reject(value, "ErrWrongValueForVar")
    ELSE Accept(value)
  ELSE IF name \in Int64Names THEN
    IF ParseInt(value).err # "nil" THEN Reject(value, "ErrWrongValueForVar")
    ELSE Accept(value)
  ELSE Accept(value)

(* variant: the ScopeGlobal case of the scope switch is missing *)
ValidateGetSystemVar_NoScopeGlobal(name, isGlobal) ==
  IF ~Cataloged(name) THEN [err |-> "UnknownSystemVar", scope |-> ""]
  ELSE LET sysVar == SysVars[name] IN
    IF sysVar.Scope \in {ScopeNone} /\ ~isGlobal
      THEN [err |-> "ErrIncorrectScope", scope |-> "GLOBAL"]
    ELSE IF sysVar.Scope = ScopeSession /\ isGlobal
      THEN [err |-> "ErrIncorrectScope", scope |-> "SESSION"]
    ELSE [err |-> "nil", scope |-> ""]

(* ---------------------------------------------------------------------- *)
(* ValidateGetSystemVar: "nil", UnknownSystemVar or ErrIncorrectScope with *)
(* the scope word it names                                                 *)
(* ---------------------------------------------------------------------- *)
ValidateGetSystemVar(name, isGlobal) ==
  IF ~Cataloged(name) THEN [err |-> "UnknownSystemVar", scope |-> ""]
  ELSE LET sysVar == SysVars[name] IN
    IF sysVar.Scope \in {ScopeGlobal, ScopeNone} /\ ~isGlobal
      THEN [err |-> "ErrIncorrectScope", scope |-> "GLOBAL"]
    ELSE IF sysVar.Scope = ScopeSession /\ isGlobal
      THEN [err |-> "ErrIncorrectScope", scope |-> "SESSION"]
    ELSE [err |-> "nil", scope |-> ""]

(* ---------------------------------------------------------------------- *)
(* 64-bit machine words: eight bytes, least significant first.  A uint64   *)
(* and an int64 share the representation (two's complement).               *)
(* ---------------------------------------------------------------------- *)
WordLen == 8
ByteBase == 256

ZeroWord == [i \in 1..WordLen |-> 0]

(* w * m + a modulo 2^64, for small m and a *)
RECURSIVE MulAddFrom(_, _, _, _)
MulAddFrom(w, m, carry, i) ==
  IF i > WordLen THEN <<>>
  ELSE LET t == w[i] * m + carry
       IN <<t % ByteBase>> \o MulAddFrom(w, m, t \div ByteBase, i + 1)

MulAdd(w, m, a) == MulAddFrom(w, m, a, 1)

RECURSIVE WordOfDigits(_, _)
WordOfDigits(d, acc) ==
  IF d = <<>> THEN acc ELSE WordOfDigits(Tail(d), MulAdd(acc, 10, d[1]))

NegWord(w) == MulAdd([i \in 1..WordLen |-> ByteBase - 1 - w[i]], 1, 1)

(* the int64 / uint64 word of a parsed integer *)
WordOf(x) ==
  IF x.neg THEN NegWord(WordOfDigits(x.mag, ZeroWord)) ELSE WordOfDigits(x.mag, ZeroWord)

IsNegWord(w) == w[WordLen] >= ByteBase \div 2

(* unsigned w / d for a divisor below 2^23, most significant byte first *)
RECURSIVE DivFrom(_, _, _, _)
DivFrom(w, d, rem, i) ==
  IF i = 0 THEN <<>>
  ELSE LET t == rem * ByteBase + w[i]
       IN DivFrom(w, d, t % d, i - 1) \o <<t \div d>>

DivU(w, d) == DivFrom(w, d, 0, WordLen)

(* Go's int64 division truncates toward zero *)
DivS(w, d) == IF IsNegWord(w) THEN NegWord(DivU(NegWord(w), d)) ELSE DivU(w, d)

(* w << n on 64 bits: byte i of the result takes the low bits of byte      *)
(* i - n/8 and the high bits of the byte below it                          *)
ByteAt(w, i) == IF i >= 1 /\ i <= WordLen THEN w[i] ELSE 0

Shl(w, n) ==
  [i \in 1..WordLen |->
     ((ByteAt(w, i - (n \div 8)) * (2 ^ (n % 8))) % ByteBase)
     + (ByteAt(w, i - (n \div 8) - 1) \div (2 ^ (8 - (n % 8))))]

RECURSIVE LessFrom(_, _, _)
LessFrom(a, b, i) ==
  IF i = 0 THEN FALSE
  ELSE IF a[i] # b[i] THEN a[i] < b[i] ELSE LessFrom(a, b, i - 1)

(* a < b as uint64 *)
LessU(a, b) == LessFrom(a, b, WordLen)

(* a < b as int64 *)
LessS(a, b) ==
  IF IsNegWord(a) # IsNegWord(b) THEN IsNegWord(a) ELSE LessU(a, b)

(* bit i (0 = least significant) of a word *)
Bit(w, i) == (w[(i \div 8) + 1] \div (2 ^ (i % 8))) % 2

(* fmt.Sprintf("%d", n) for a small natural number *)
RECURSIVE FormatNat(_)
FormatNat(n) ==
  IF n < 10 THEN <<DigitChars[n + 1]>> ELSE FormatNat(n \div 10) \o <<DigitChars[(n % 10) + 1]>>

(* ---------------------------------------------------------------------- *)
(* GoTimeToTS.  A time.Time is modelled by the int64 word t.UnixNano()     *)
(* returns for it.                                                         *)
(* ---------------------------------------------------------------------- *)
epochShiftBits == 18
Millisecond == 1000000

UnixMilli(t) == DivS(t, Millisecond)

(* variant: the shift is one bit short *)
GoTimeToTS_ShortShift(t) == Shl(UnixMilli(t), epochShiftBits - 1)

GoTimeToTS(t) == Shl(UnixMilli(t), epochShiftBits)

(* ---------------------------------------------------------------------- *)
(* State                                                                   *)
(* ---------------------------------------------------------------------- *)
VARIABLES
  systems,            \* systems[s]: SessionVars.systems of session s, a map from name to value
  warnings,           \* warnings[s]: the warnings appended to vars.StmtCtx of session s
  StartTS,            \* StartTS[s]: s.TxnCtx.StartTS
  ProcessGeneralLog,  \* the process-wide general log flag
  globalVars,         \* the global store behind GlobalVarsAccessor (rows that were written)
  SnapshotTS,         \* s.SnapshotTS of the session setSnapshotTS works on
  inp,                \* the arguments of the pure functions under check
  last                \* the last call: its arguments, its result and its error

vars == <<systems, warnings, StartTS, ProcessGeneralLog, globalVars, SnapshotTS, inp, last>>

Sessions == {"s1", "s2"}

(* partial maps *)
EmptyMap == <<>>
MapPut(m, k, v) == [x \in (DOMAIN m) \cup {k} |-> IF x = k THEN v ELSE m[x]]
MapDelete(m, k) == [x \in (DOMAIN m) \ {k} |-> m[x]]

NoCall == [op |-> "none"]
NoInput == [kind |-> "none"]

(* ---------------------------------------------------------------------- *)
(* External collaborators                                                  *)
(* ---------------------------------------------------------------------- *)
(* GlobalVarsAccessor.GetGlobalSysVar: the stored row, or the compiled-in  *)
(* default when no row was written                                         *)
GetGlobalSysVar(key) ==
  IF key \in DOMAIN globalVars THEN globalVars[key] ELSE SysVars[key].Value

(* types.Datum: a null, a string, or a kind ToString cannot convert *)
NullDatum == [kind |-> "null", s |-> <<>>]
StringDatum(str) == [kind |-> "string", s |-> str]
OpaqueDatum == [kind |-> "other", s |-> <<>>]

DatumIsNull(d) == d.kind = "null"
DatumToString(d) ==
  IF d.kind = "string" THEN [val |-> d.s, err |-> "nil"] ELSE [val |-> <<>>, err |-> "ErrToString"]

(* json.MarshalIndent(config.GetGlobalConfig(), "", "\t") *)
ConfigJSON == <<"{","}">>
MarshalConfig == [val |-> ConfigJSON, err |-> "nil"]

(* ---------------------------------------------------------------------- *)
(* GetSessionOnlySysVars / GetSessionSystemVar                             *)
(* ---------------------------------------------------------------------- *)
(* variant: the overlay is consulted before the virtual variables *)
GetSessionOnlySysVars_OverlayFirst(s, key) ==
  IF ~Cataloged(key) THEN [val |-> <<>>, ok |-> FALSE, err |-> "UnknownSystemVar"]
  ELSE LET sysVar == SysVars[key] IN
    IF key \in DOMAIN systems[s]
      THEN [val |-> systems[s][key], ok |-> TRUE, err |-> "nil"]
    ELSE IF sysVar.Name = TiDBCurrentTS
      THEN [val |-> FormatNat(StartTS[s]), ok |-> TRUE, err |-> "nil"]
    ELSE IF sysVar.Name = TiDBGeneralLog
      THEN [val |-> FormatNat(ProcessGeneralLog), ok |-> TRUE, err |-> "nil"]
    ELSE IF sysVar.Name = TiDBConfig
      THEN IF MarshalConfig.err # "nil"
             THEN [val |-> <<>>, ok |-> FALSE, err |-> MarshalConfig.err]
             ELSE [val |-> MarshalConfig.val, ok |-> TRUE, err |-> "nil"]
    ELSE IF ~ScopeHasGlobal(sysVar.Scope)
      THEN [val |-> sysVar.Value, ok |-> TRUE, err |-> "nil"]
    ELSE [val |-> <<>>, ok |-> FALSE, err |-> "nil"]

(* variant: the compiled-in default of a non-global variable is not used *)
GetSessionOnlySysVars_NoDefault(s, key) ==
  IF ~Cataloged(key) THEN [val |-> <<>>, ok |-> FALSE, err |-> "UnknownSystemVar"]
  ELSE LET sysVar == SysVars[key] IN
    IF sysVar.Name = TiDBCurrentTS
      THEN [val |-> FormatNat(StartTS[s]), ok |-> TRUE, err |-> "nil"]
    ELSE IF sysVar.Name = TiDBGeneralLog
      THEN [val |-> FormatNat(ProcessGeneralLog), ok |-> TRUE, err |-> "nil"]
    ELSE IF sysVar.Name = TiDBConfig
      THEN IF MarshalConfig.err # "nil"
             THEN [val |-> <<>>, ok |-> FALSE, err |-> MarshalConfig.err]
             ELSE [val |-> MarshalConfig.val, ok |-> TRUE, err |-> "nil"]
    ELSE IF key \in DOMAIN systems[s]
      THEN [val |-> systems[s][key], ok |-> TRUE, err |-> "nil"]
    ELSE [val |-> <<>>, ok |-> FALSE, err |-> "nil"]

GetSessionOnlySysVars(s, key) ==
  IF ~Cataloged(key) THEN [val |-> <<>>, ok |-> FALSE, err |-> "UnknownSystemVar"]
  ELSE LET sysVar == SysVars[key] IN
    IF sysVar.Name = TiDBCurrentTS
      THEN [val |-> FormatNat(StartTS[s]), ok |-> TRUE, err |-> "nil"]
    ELSE IF sysVar.Name = TiDBGeneralLog
      THEN [val |-> FormatNat(ProcessGeneralLog), ok |-> TRUE, err |-> "nil"]
    ELSE IF sysVar.Name = TiDBConfig
      THEN IF MarshalConfig.err # "nil"
             THEN [val |-> <<>>, ok |-> FALSE, err |-> MarshalConfig.err]
             ELSE [val |-> MarshalConfig.val, ok |-> TRUE, err |-> "nil"]
    ELSE IF key \in DOMAIN systems[s]
      THEN [val |-> systems[s][key], ok |-> TRUE, err |-> "nil"]
    ELSE IF ~ScopeHasGlobal(sysVar.Scope)
      THEN [val |-> sysVar.Value, ok |-> TRUE, err |-> "nil"]
    ELSE [val |-> <<>>, ok |-> FALSE, err |-> "nil"]

(* the record of a get or set call: the session, the name as given, the    *)
(* lowercase key, the value given, the result, the error, whether the      *)
(* accessor was called, and whether the call directly follows a successful *)
(* set to null of the same key by the same session                         *)
AfterNullSet(s, key) ==
  /\ last.op = "set"
  /\ last.sess = s
  /\ last.key = key
  /\ last.datum = NullDatum
  /\ last.err = "nil"

Call(op, s, name, key, datum, res, err, acc) ==
  [op |-> op, sess |-> s, name |-> name, key |-> key, datum |-> datum,
   res |-> res, err |-> err, acc |-> acc,
   afterNullSet |-> op = "get" /\ AfterNullSet(s, key)]

(* variant: the global value is returned without being cached *)
GetSessionSystemVar_NoCache(s, name, accFails) ==
  \E key \in {ToLower(name)} :
  \E r \in {GetSessionOnlySysVars(s, key)} :
     IF r.err # "nil" \/ r.ok THEN
       /\ last' = Call("get", s, name, key, NullDatum, r.val, r.err, FALSE)
       /\ UNCHANGED systems
     ELSE IF accFails THEN
       /\ last' = Call("get", s, name, key, NullDatum, <<>>, "ErrAccessor", TRUE)
       /\ UNCHANGED systems
     ELSE \E gVal \in {GetGlobalSysVar(key)} :
       /\ UNCHANGED systems
       /\ last' = Call("get", s, name, key, NullDatum, gVal, "nil", TRUE)

(* accFails: the accessor call, if one is made, returns an error *)
GetSessionSystemVar(s, name, accFails) ==
  \E key \in {ToLower(name)} :
  \E r \in {GetSessionOnlySysVars(s, key)} :
     IF r.err # "nil" \/ r.ok THEN
       /\ last' = Call("get", s, name, key, NullDatum, r.val, r.err, FALSE)
       /\ UNCHANGED systems
     ELSE IF accFails THEN
       /\ last' = Call("get", s, name, key, NullDatum, <<>>, "ErrAccessor", TRUE)
       /\ UNCHANGED systems
     ELSE \E gVal \in {GetGlobalSysVar(key)} :
       /\ systems' = [systems EXCEPT ![s] = MapPut(@, key, gVal)]
       /\ last' = Call("get", s, name, key, NullDatum, gVal, "nil", TRUE)

(* ---------------------------------------------------------------------- *)
(* SetSessionSystemVar, with SessionVars.deleteSystemVar and               *)
(* SessionVars.SetSystemVar                                                *)
(* ---------------------------------------------------------------------- *)
deleteSystemVar(m, name) == MapDelete(m, name)

SetSystemVar(m, name, val) == MapPut(m, name, val)

(* variant: the value is written before the validation error is looked at *)
SetSessionSystemVar_WriteBeforeCheck(s, rawName, value) ==
  \E name \in {ToLower(rawName)} :
  IF ~Cataloged(name) THEN
    /\ last' = Call("set", s, rawName, name, value, <<>>, "UnknownSystemVar", FALSE)
    /\ UNCHANGED <<systems, warnings>>
  ELSE IF DatumIsNull(value) THEN
    /\ systems' = [systems EXCEPT ![s] = deleteSystemVar(@, name)]
    /\ last' = Call("set", s, rawName, name, value, <<>>, "nil", FALSE)
    /\ UNCHANGED warnings
  ELSE \E str \in {DatumToString(value)} :
    IF str.err # "nil" THEN
      /\ last' = Call("set", s, rawName, name, value, <<>>, str.err, FALSE)
      /\ UNCHANGED <<systems, warnings>>
    ELSE \E v \in {ValidateSetSystemVar(name, str.val)} :
      /\ Len(warnings[s]) + Len(v.warn) <= MaxWarnings
      /\ warnings' = [warnings EXCEPT ![s] = @ \o v.warn]
      /\ IF v.err # "nil" THEN
           /\ last' = Call("set", s, rawName, name, value, v.val, v.err, FALSE)
           /\ systems' = [systems EXCEPT ![s] = SetSystemVar(@, name, v.val)]
         ELSE
           /\ systems' = [systems EXCEPT ![s] = SetSystemVar(@, name, v.val)]
           /\ last' = Call("set", s, rawName, name, value, v.val, "nil", FALSE)

(* variant: the string given is written instead of the validated one *)
SetSessionSystemVar_WriteRaw(s, rawName, value) ==
  \E name \in {ToLower(rawName)} :
  IF ~Cataloged(name) THEN
    /\ last' = Call("set", s, rawName, name, value, <<>>, "UnknownSystemVar", FALSE)
    /\ UNCHANGED <<systems, warnings>>
  ELSE IF DatumIsNull(value) THEN
    /\ systems' = [systems EXCEPT ![s] = deleteSystemVar(@, name)]
    /\ last' = Call("set", s, rawName, name, value, <<>>, "nil", FALSE)
    /\ UNCHANGED warnings
  ELSE \E str \in {DatumToString(value)} :
    IF str.err # "nil" THEN
      /\ last' = Call("set", s, rawName, name, value, <<>>, str.err, FALSE)
      /\ UNCHANGED <<systems, warnings>>
    ELSE \E v \in {ValidateSetSystemVar(name, str.val)} :
      /\ Len(warnings[s]) + Len(v.warn) <= MaxWarnings
      /\ warnings' = [warnings EXCEPT ![s] = @ \o v.warn]
      /\ IF v.err # "nil" THEN
           /\ last' = Call("set", s, rawName, name, value, v.val, v.err, FALSE)
           /\ UNCHANGED systems
         ELSE
           /\ systems' = [systems EXCEPT ![s] = SetSystemVar(@, name, str.val)]
           /\ last' = Call("set", s, rawName, name, value, v.val, "nil", FALSE)

SetSessionSystemVar(s, rawName, value) ==
  \E name \in {ToLower(rawName)} :
  IF ~Cataloged(name) THEN
    /\ last' = Call("set", s, rawName, name, value, <<>>, "UnknownSystemVar", FALSE)
    /\ UNCHANGED <<systems, warnings>>
  ELSE IF DatumIsNull(value) THEN
    /\ systems' = [systems EXCEPT ![s] = deleteSystemVar(@, name)]
    /\ last' = Call("set", s, rawName, name, value, <<>>, "nil", FALSE)
    /\ UNCHANGED warnings
  ELSE \E str \in {DatumToString(value)} :
    IF str.err # "nil" THEN
      /\ last' = Call("set", s, rawName, name, value, <<>>, str.err, FALSE)
      /\ UNCHANGED <<systems, warnings>>
    ELSE \E v \in {ValidateSetSystemVar(name, str.val)} :
      /\ Len(warnings[s]) + Len(v.warn) <= MaxWarnings
      /\ warnings' = [warnings EXCEPT ![s] = @ \o v.warn]
      /\ IF v.err # "nil" THEN
           /\ last' = Call("set", s, rawName, name, value, v.val, v.err, FALSE)
           /\ UNCHANGED systems
         ELSE
           /\ systems' = [systems EXCEPT ![s] = SetSystemVar(@, name, v.val)]
           /\ last' = Call("set", s, rawName, name, value, v.val, "nil", FALSE)

(* ---------------------------------------------------------------------- *)
(* The session machine: two sessions over one global store                 *)
(* ---------------------------------------------------------------------- *)
UnknownName == <<"n","o","_","s","u","c","h","_","v","a","r">>

(* the first session exercises every resolution path; the second one works *)
(* on the variable the two sessions share through the global store         *)
GetNames(s) ==
  IF s = "s1"
  THEN { DefaultWeekFormat, <<"D","e","f","a","u","l","t","_","W","e","e","k","_","F","o","r","m","a","t">>, ErrorCount, VersionVar,
         TiDBCurrentTS, TiDBGeneralLog, TiDBConfig, UnknownName }
  ELSE { DefaultWeekFormat }

SetNames(s) ==
  IF s = "s1"
  THEN { DefaultWeekFormat, <<"D","E","F","A","U","L","T","_","W","E","E","K","_","F","O","R","M","A","T">>, ErrorCount, TiDBCurrentTS, UnknownName }
  ELSE { DefaultWeekFormat }

SetValues(s) ==
  IF s = "s1"
  THEN { NullDatum, OpaqueDatum, StringDatum(<<"3">>), StringDatum(<<"-","5">>),
         StringDatum(<<"a","b","c">>), StringDatum(<<"D","e","f","a","u","l","t">>) }
  ELSE { NullDatum, StringDatum(<<"3">>) }

GlobalNames == { DefaultWeekFormat }
GlobalValues == { <<"5">> }
StartTSValues == { 0, 42 }
TxnSessions == { "s1" }

Init ==
  /\ systems = [s \in Sessions |-> EmptyMap]
  /\ warnings = [s \in Sessions |-> <<>>]
  /\ StartTS = [s \in Sessions |-> 0]
  /\ ProcessGeneralLog = 0
  /\ globalVars = EmptyMap
  /\ SnapshotTS = ZeroWord
  /\ inp = NoInput
  /\ last = NoCall

Get ==
  \E s \in Sessions : \E name \in GetNames(s), accFails \in BOOLEAN :
    /\ GetSessionSystemVar(s, name, accFails)
    /\ UNCHANGED <<warnings, StartTS, ProcessGeneralLog, globalVars, SnapshotTS, inp>>

Set ==
  \E s \in Sessions : \E name \in SetNames(s), value \in SetValues(s) :
    /\ SetSessionSystemVar(s, name, value)
    /\ UNCHANGED <<StartTS, ProcessGeneralLog, globalVars, SnapshotTS, inp>>

(* SET GLOBAL, by any session, through the accessor *)
SetGlobalSysVar ==
  \E name \in GlobalNames, value \in GlobalValues :
    /\ globalVars' = MapPut(globalVars, name, value)
    /\ last' = [op |-> "setglobal", key |-> name]
    /\ UNCHANGED <<systems, warnings, StartTS, ProcessGeneralLog, SnapshotTS, inp>>

(* a transaction of session s starts (or ends) *)
NewTxn ==
  \E s \in TxnSessions, ts \in StartTSValues :
    /\ StartTS' = [StartTS EXCEPT ![s] = ts]
    /\ last' = [op |-> "txn", sess |-> s]
    /\ UNCHANGED <<systems, warnings, ProcessGeneralLog, globalVars, SnapshotTS, inp>>

(* atomic.StoreUint32(&ProcessGeneralLog, v) *)
StoreProcessGeneralLog ==
  \E v \in {0, 1} :
    /\ ProcessGeneralLog' = v
    /\ last' = [op |-> "log"]
    /\ UNCHANGED <<systems, warnings, StartTS, globalVars, SnapshotTS, inp>>

Next == Get \/ Set \/ SetGlobalSysVar \/ NewTxn \/ StoreProcessGeneralLog

Spec == Init /\ [][Next]_vars

(* ---------------------------------------------------------------------- *)
(* The validators as pure functions: the arguments are drawn in the        *)
(* initial state and one call is made                                      *)
(* ---------------------------------------------------------------------- *)
ValidateNames == (DOMAIN SysVars) \cup { UnknownName, <<"E","R","R","O","R","_","C","O","U","N","T">> }

ValidateValues ==
  { <<>>, <<"0">>, <<"1">>, <<"2">>, <<"3">>, <<"7">>, <<"8">>, <<"-","1">>, <<"-","5">>, <<"+","4">>, <<"0","0","7">>, <<"9","9">>, <<"1",".","5">>, <<"a","b","c">>,
    <<"4">>, <<"2","5","5">>, <<"2","5","6">>, <<"1","0","0","0","0","0">>, <<"1","0","0","0","0","1">>, <<"8","3","8","8","6","0","8">>, <<"8","3","8","8","6","0","9">>,
    <<"4","2","9","4","9","6","7","2","9","5">>, <<"4","2","9","4","9","6","7","2","9","6">>, <<"9","2","2","3","3","7","2","0","3","6","8","5","4","7","7","5","8","0","7">>, <<"9","2","2","3","3","7","2","0","3","6","8","5","4","7","7","5","8","0","8">>,
    <<"-","9","2","2","3","3","7","2","0","3","6","8","5","4","7","7","5","8","0","8">>, <<"-","9","2","2","3","3","7","2","0","3","6","8","5","4","7","7","5","8","0","9">>,
    <<"1","8","4","4","6","7","4","4","0","7","3","7","0","9","5","5","1","6","1","5">>, <<"1","8","4","4","6","7","4","4","0","7","3","7","0","9","5","5","1","6","1","6">>,
    <<"D","E","F","A","U","L","T">>, <<"d","e","f","a","u","l","t">>, <<"D","e","F","a","u","l","t">>, <<"O","N">>, <<"o","n">>, <<"O","F","F">>, <<"O","f","f">>, <<"A","L","L">>, <<"a","l","l">>,
    <<"O","W","N","_","G","T","I","D">>, <<"a","l","l","_","g","t","i","d","s">>, <<"S","Y","S","T","E","M">>, <<"s","y","s","t","e","m">>, <<"+","0","8",":","0","0">> }

PriorWarning == [code |-> "ErrTruncatedWrongValue", name |-> OldPasswords, value |-> <<"9">>]

InitValidate ==
  /\ systems = [s \in Sessions |-> EmptyMap]
  /\ warnings \in { [s \in Sessions |-> w] : w \in { <<>>, <<PriorWarning>> } }
  /\ StartTS = [s \in Sessions |-> 0]
  /\ ProcessGeneralLog = 0
  /\ globalVars = EmptyMap
  /\ SnapshotTS = ZeroWord
  /\ inp \in { [kind |-> "validate", name |-> n, value |-> v, isGlobal |-> g] :
               n \in ValidateNames, v \in ValidateValues, g \in BOOLEAN }
  /\ last = NoCall

(* ValidateSetSystemVar(vars of session s1, inp.name, inp.value) *)
CallValidateSet ==
  /\ last = NoCall
  /\ \E v \in {ValidateSetSystemVar(inp.name, inp.value)} :
       /\ warnings' = [warnings EXCEPT !["s1"] = @ \o v.warn]
       /\ last' = [op |-> "validateset", res |-> v.val, err |-> v.err,
                   prior |-> Len(warnings["s1"])]
  /\ UNCHANGED <<systems, StartTS, ProcessGeneralLog, globalVars, SnapshotTS, inp>>

(* ValidateGetSystemVar(inp.name, inp.isGlobal) *)
CallValidateGet ==
  /\ last = NoCall
  /\ \E r \in {ValidateGetSystemVar(inp.name, inp.isGlobal)} :
       last' = [op |-> "validateget", err |-> r.err, scope |-> r.scope]
  /\ UNCHANGED <<systems, warnings, StartTS, ProcessGeneralLog, globalVars, SnapshotTS, inp>>

NextValidate == CallValidateSet \/ CallValidateGet

SpecValidate == InitValidate /\ [][NextValidate]_vars

(* ---------------------------------------------------------------------- *)
(* GoTimeToTS as a pure function of two times                              *)
(* ---------------------------------------------------------------------- *)
(* t.UnixNano() of the times drawn: around the epoch, around a millisecond *)
(* boundary, a present-day instant and the ends of the int64 range         *)
TimeInputs ==
  { IntOf(TRUE, <<2,0,0,0,0,0,1>>), IntOf(TRUE, <<1,0,0,0,0,0,0>>), IntOf(TRUE, <<9,9,9,9,9,9>>), IntOf(TRUE, <<1>>),
    Lit(<<0>>), Lit(<<1>>), Lit(<<9,9,9,9,9,9>>), Lit(<<1,0,0,0,0,0,0>>), Lit(<<1,0,0,0,0,0,1>>), Lit(<<2,0,0,0,0,0,0>>),
    Lit(<<1,5,4,1,0,3,0,4,0,0,1,2,3,4,5,6,7,8,9>>), Lit(<<1,5,4,1,0,3,0,4,0,0,1,2,3,9,9,9,9,9,9>>), Lit(<<1,5,4,1,0,3,0,4,0,0,1,2,4,0,0,0,0,0,0>>),
    IntOf(TRUE, <<1,5,4,1,0,3,0,4,0,0,1,2,3,4,5,6,7,8,9>>),
    Lit(<<9,2,2,3,3,7,2,0,3,6,8,5,4,7,7,5,8,0,7>>), IntOf(TRUE, <<9,2,2,3,3,7,2,0,3,6,8,5,4,7,7,5,8,0,8>>) }

InitTS ==
  /\ systems = [s \in Sessions |-> EmptyMap]
  /\ warnings = [s \in Sessions |-> <<>>]
  /\ StartTS = [s \in Sessions |-> 0]
  /\ ProcessGeneralLog = 0
  /\ globalVars = EmptyMap
  /\ SnapshotTS = ZeroWord
  /\ inp \in { [kind |-> "times", t1 |-> WordOf(a), t2 |-> WordOf(b)] : a, b \in TimeInputs }
  /\ last = NoCall

CallGoTimeToTS ==
  /\ last = NoCall
  /\ last' = [op |-> "ts", ts1 |-> GoTimeToTS(inp.t1), ts2 |-> GoTimeToTS(inp.t2)]
  /\ UNCHANGED <<systems, warnings, StartTS, ProcessGeneralLog, globalVars, SnapshotTS, inp>>

NextTS == CallGoTimeToTS

SpecTS == InitTS /\ [][NextTS]_vars

(* ---------------------------------------------------------------------- *)
(* setSnapshotTS                                                           *)
(* ---------------------------------------------------------------------- *)
(* types.ParseTime(sc, sVal, mysql.TypeTimestamp, types.MaxFsp): the       *)
(* date-time strings it accepts here, everything else is an error          *)
DateTimeStrings ==
  { <<"1","9","7","0","-","0","1","-","0","1"," ","0","0",":","0","0",":","0","1">>, <<"1","9","6","9","-","1","2","-","3","1"," ","2","3",":","5","9",":","5","9",".","5">>, <<"2","0","1","8","-","1","1","-","0","1"," ","0","0",":","0","0",":","0","0",".","1","2","3">>,
    <<"0","0","0","0","-","0","0","-","0","0"," ","0","0",":","0","0",":","0","0">> }

ParseTime(sVal) ==
  IF sVal \in DateTimeStrings THEN [t |-> sVal, err |-> "nil"]
  ELSE [t |-> <<>>, err |-> "ErrInvalidTimeFormat"]

(* t.Time.GoTime(time.Local): the Go time (as its UnixNano word) and the   *)
(* error.  A date Go cannot represent comes back as the nearest Go time    *)
(* together with an error.                                                 *)
GoTime(t) ==
  IF t = <<"1","9","7","0","-","0","1","-","0","1"," ","0","0",":","0","0",":","0","1">>
    THEN { [t1 |-> WordOf(Lit(<<1,0,0,0,0,0,0,0,0,0>>)), err |-> "nil"] }
  ELSE IF t = <<"1","9","6","9","-","1","2","-","3","1"," ","2","3",":","5","9",":","5","9",".","5">>
    THEN { [t1 |-> WordOf(IntOf(TRUE, <<5,0,0,0,0,0,0,0,0>>)), err |-> "nil"] }
  ELSE IF t = <<"2","0","1","8","-","1","1","-","0","1"," ","0","0",":","0","0",":","0","0",".","1","2","3">>
    THEN { [t1 |-> WordOf(Lit(<<1,5,4,1,0,3,0,4,0,0,1,2,3,0,0,0,0,0,0>>)), err |-> "nil"] }
  ELSE { [t1 |-> WordOf(x), err |-> "ErrInvalidTimeFormat"] : x \in TimeInputs }

setSnapshotTS(sVal) ==
  IF sVal = <<>> THEN
    /\ SnapshotTS' = ZeroWord
    /\ last' = [op |-> "snapshot", sVal |-> sVal, err |-> "nil", path |-> "empty", t1 |-> ZeroWord]
  ELSE \E tso \in {ParseUint(sVal)} :
    IF tso.err = "nil" THEN
      /\ SnapshotTS' = WordOf(tso.val)
      /\ last' = [op |-> "snapshot", sVal |-> sVal, err |-> "nil", path |-> "tso", t1 |-> ZeroWord]
    ELSE \E t \in {ParseTime(sVal)} :
      IF t.err # "nil" THEN
        /\ last' = [op |-> "snapshot", sVal |-> sVal, err |-> t.err, path |-> "parse", t1 |-> ZeroWord]
        /\ UNCHANGED SnapshotTS
      ELSE \E g \in GoTime(t.t) :
        /\ SnapshotTS' = GoTimeToTS(g.t1)
        /\ last' = [op |-> "snapshot", sVal |-> sVal, err |-> g.err, path |-> "time", t1 |-> g.t1]

SnapshotInputs ==
  DateTimeStrings \cup
  { <<>>, <<"0">>, <<"7">>, <<"2","6","2","1","4","4">>, <<"4","0","3","0","1","7","3","9","6","7","8","1","7","4","4","1","2","9">>, <<"1","8","4","4","6","7","4","4","0","7","3","7","0","9","5","5","1","6","1","5">>, <<"1","8","4","4","6","7","4","4","0","7","3","7","0","9","5","5","1","6","1","6">>,
    <<"1">>, <<"1","8">>, <<"-","1">>, <<"+","7">>, <<"y","e","s","t","e","r","d","a","y">>, <<"2","0","1","8","-","1","3","-","0","1"," ","0","0",":","0","0",":","0","0">>, <<"2","0","1","8","-","0","2","-","3","0"," ","0","0",":","0","0",":","0","0">> }

InitSnapshot ==
  /\ systems = [s \in Sessions |-> EmptyMap]
  /\ warnings = [s \in Sessions |-> <<>>]
  /\ StartTS = [s \in Sessions |-> 0]
  /\ ProcessGeneralLog = 0
  /\ globalVars = EmptyMap
  /\ SnapshotTS \in { ZeroWord, WordOf(Lit(<<4,0,3,0,1,7,3,9,6,7,8,1,7,4,4,1,2,8>>)) }
  /\ inp = NoInput
  /\ last = NoCall

CallSetSnapshotTS ==
  \E sVal \in SnapshotInputs :
    /\ setSnapshotTS(sVal)
    /\ UNCHANGED <<systems, warnings, StartTS, ProcessGeneralLog, globalVars, inp>>

NextSnapshot == CallSetSnapshotTS

SpecSnapshot == InitSnapshot /\ [][NextSnapshot]_vars

(* ====================================================================== *)
(* Properties                                                              *)
(* ====================================================================== *)
HardErrors == { "ErrWrongTypeForVar", "ErrWrongValueForVar", "ErrReadOnly" }

VirtualNames == { TiDBCurrentTS, TiDBGeneralLog, TiDBConfig }

(* the value a virtual variable has for session s *)
VirtualValue(s, key) ==
  IF key = TiDBCurrentTS THEN FormatNat(StartTS[s])
  ELSE IF key = TiDBGeneralLog THEN FormatNat(ProcessGeneralLog)
  ELSE ConfigJSON

(* the overlay of session s agrees before and after the step on every key  *)
(* but k                                                                   *)
OtherKeysUnchanged(s, k) ==
  /\ (DOMAIN systems'[s]) \ {k} = (DOMAIN systems[s]) \ {k}
  /\ \A x \in (DOMAIN systems[s]) \ {k} : systems'[s][x] = systems[s][x]

(* C1: when SetSessionSystemVar on a cataloged name with a non-null value  *)
(* fails because the validator rejected the value (WrongTypeForVar,        *)
(* WrongValueForVar, ReadOnly), the session overlay and the global store   *)
(* are what they were before the call.                                     *)
C1_FailedSetLeavesStateUnchanged ==
  [][ (/\ last'.op = "set"
       /\ last'.err \in HardErrors)
      => (/\ systems' = systems
          /\ globalVars' = globalVars) ]_vars

(* a rejected set of a variable the session has a value for, with a row    *)
(* written to the global store before                                      *)
C1_Witness ==
  /\ last.op = "set"
  /\ last.err = "ErrWrongTypeForVar"
  /\ last.key \in DOMAIN systems[last.sess]
  /\ last.key \in DOMAIN globalVars

(* C2: ValidateSetSystemVar on a read-only variable (WarningCount,         *)
(* ErrorCount) returns ReadOnly for every input value, the literal DEFAULT *)
(* in any letter case included.                                            *)
C2_ReadOnlySetAlwaysFails ==
  (/\ last.op = "validateset"
   /\ inp.name \in {WarningCount, ErrorCount})
  => last.err = "ErrReadOnly"

(* C3: for a bounded-integer variable, an integer literal outside the      *)
(* bounds is not an error: the nearest bound is returned and exactly one   *)
(* TruncatedWrongValue warning is appended; only a non-integer input       *)
(* fails, with WrongTypeForVar.                                            *)
BoundedIntegers ==
     DefaultWeekFormat :> [min |-> <<"0">>, max |-> <<"7">>]
  @@ MaxConnections :> [min |-> <<"1">>, max |-> <<"1","0","0","0","0","0">>]
  @@ MaxSortLength :> [min |-> <<"4">>, max |-> <<"8","3","8","8","6","0","8">>]
  @@ MaxSpRecursionDepth :> [min |-> <<"0">>, max |-> <<"2","5","5">>]
  @@ MaxUserConnections :> [min |-> <<"0">>, max |-> <<"4","2","9","4","9","6","7","2","9","5">>]
  @@ GroupConcatMaxLen :> [min |-> <<"4">>, max |-> <<"1","8","4","4","6","7","4","4","0","7","3","7","0","9","5","5","1","6","1","5">>]

LiteralBody(str) == IF str # <<>> /\ str[1] \in {"+", "-"} THEN Tail(str) ELSE str

IsIntegerLiteral(str) ==
  /\ LiteralBody(str) # <<>>
  /\ \A i \in 1..Len(LiteralBody(str)) : IsDigit(LiteralBody(str)[i])

LiteralValue(str) ==
  IntOf(str[1] = "-",
        StripZeros([i \in 1..Len(LiteralBody(str)) |-> DigitVal(LiteralBody(str)[i])]))

C3_OutOfRangeIsClamped ==
  (/\ last.op = "validateset"
   /\ inp.name \in DOMAIN BoundedIntegers)
  => LET b == BoundedIntegers[inp.name]
         below == IsIntegerLiteral(inp.value) /\ IntLT(LiteralValue(inp.value), LiteralValue(b.min))
         above == IsIntegerLiteral(inp.value) /\ IntGT(LiteralValue(inp.value), LiteralValue(b.max))
     IN /\ (below \/ above) =>
             /\ last.err = "nil"
             /\ last.res = IF below THEN b.min ELSE b.max
             /\ Len(warnings["s1"]) = last.prior + 1
             /\ warnings["s1"][Len(warnings["s1"])].code = "ErrTruncatedWrongValue"
        /\ last.err # "nil" =>
             /\ ~IsIntegerLiteral(inp.value)
             /\ last.err = "ErrWrongTypeForVar"

(* C4 as stated: a set to null of a cataloged name runs no validation,     *)
(* leaves the global store alone and removes the name from the overlay,    *)
(* and the next get of that name returns no error and the value of the     *)
(* global/default path (the accessor's global value for a global-scoped    *)
(* name, the catalog default otherwise).                                   *)
NullSetDeletes ==
  (/\ last'.op = "set"
   /\ last'.datum = NullDatum
   /\ Cataloged(last'.key))
  => (/\ last'.err = "nil"
      /\ last'.key \notin DOMAIN systems'[last'.sess]
      /\ OtherKeysUnchanged(last'.sess, last'.key)
      /\ \A t \in Sessions \ {last'.sess} : systems'[t] = systems[t]
      /\ globalVars' = globalVars
      /\ warnings' = warnings)

C4_NextGetNeverFails ==
  [][ /\ NullSetDeletes
      /\ (/\ last'.op = "get"
          /\ last'.afterNullSet)
         => (/\ last'.err = "nil"
             /\ last'.res = IF ScopeHasGlobal(SysVars[last'.key].Scope)
                            THEN GetGlobalSysVar(last'.key)
                            ELSE SysVars[last'.key].Value) ]_vars

(* C4 amended: a set to null of a cataloged name runs no validation,       *)
(* leaves the global store alone and removes the name from the overlay;    *)
(* the next get of that name does not see the deleted session value: a     *)
(* virtual name returns its computed value, a name whose scope excludes    *)
(* global returns the catalog default without an accessor call, and a      *)
(* global-scoped name returns the accessor's current global value, or the  *)
(* accessor's error when the accessor call fails.                          *)
C4_NullSetFallsBack ==
  [][ /\ NullSetDeletes
      /\ (/\ last'.op = "get"
          /\ last'.afterNullSet)
         => IF last'.key \in VirtualNames
              THEN /\ last'.err = "nil"
                   /\ last'.res = VirtualValue(last'.sess, last'.key)
                   /\ ~last'.acc
            ELSE IF ~ScopeHasGlobal(SysVars[last'.key].Scope)
              THEN /\ last'.err = "nil"
                   /\ last'.res = SysVars[last'.key].Value
                   /\ ~last'.acc
            ELSE /\ last'.acc
                 /\ last'.err \in {"nil", "ErrAccessor"}
                 /\ last'.err = "nil" => last'.res = GetGlobalSysVar(last'.key) ]_vars

(* a get right after a set to null that returns the global value another   *)
(* writer stored                                                           *)
C4_Witness ==
  /\ last.op = "get"
  /\ last.afterNullSet
  /\ last.key = DefaultWeekFormat
  /\ last.err = "nil"
  /\ DefaultWeekFormat \in DOMAIN globalVars
  /\ last.res = globalVars[DefaultWeekFormat]

(* C5: ValidateGetSystemVar fails with UnknownSystemVar for a name that is *)
(* not cataloged; a global statement succeeds only on a variable with the  *)
(* global flag or with scope None, a session statement only on a variable  *)
(* that is not global-only; a global-only variable in a session statement  *)
(* fails with IncorrectScope naming GLOBAL, a session-only variable in a   *)
(* global statement with IncorrectScope naming SESSION.                    *)
C5_ScopeIsEnforced ==
  (last.op = "validateget")
  => IF inp.name \notin DOMAIN SysVars
       THEN last.err = "UnknownSystemVar"
     ELSE LET scope == SysVars[inp.name].Scope IN
       /\ last.err \in {"nil", "ErrIncorrectScope"}
       /\ (inp.isGlobal /\ last.err = "nil") => (ScopeHasGlobal(scope) \/ scope = ScopeNone)
       /\ (~inp.isGlobal /\ last.err = "nil") => scope # ScopeGlobal
       /\ (scope = ScopeGlobal /\ ~inp.isGlobal) =>
             (last.err = "ErrIncorrectScope" /\ last.scope = "GLOBAL")
       /\ (scope = ScopeSession /\ inp.isGlobal) =>
             (last.err = "ErrIncorrectScope" /\ last.scope = "SESSION")
       /\ (scope = ScopeNone) =>
             IF inp.isGlobal THEN last.err = "nil"
             ELSE (last.err = "ErrIncorrectScope" /\ last.scope = "GLOBAL")
       /\ (scope = ScopeGlobal + ScopeSession) => last.err = "nil"
       /\ (scope = ScopeGlobal /\ inp.isGlobal) => last.err = "nil"
       /\ (scope = ScopeSession /\ ~inp.isGlobal) => last.err = "nil"

(* a global-only variable read by a session statement *)
C5_Witness ==
  /\ last.op = "validateget"
  /\ inp.name \in DOMAIN SysVars
  /\ SysVars[inp.name].Scope = ScopeGlobal
  /\ ~inp.isGlobal
  /\ last.err = "ErrIncorrectScope"
  /\ last.scope = "GLOBAL"

(* C6: GetSessionSystemVar resolves the lowercased name in a fixed order:  *)
(* not cataloged - UnknownSystemVar, no accessor call; virtual - the       *)
(* computed value whatever the overlay and the global store hold, no       *)
(* accessor call, overlay unchanged; in the overlay - the overlay value;   *)
(* scope without global - the catalog default, no accessor call; else the  *)
(* accessor's global value, stored in the overlay under the lowercase name *)
C6_GetResolutionOrder ==
  [][ (last'.op = "get")
      => \A s \in {last'.sess} : \A key \in {ToLower(last'.name)} :
            /\ last'.key = key
            /\ IF ~Cataloged(key)
                 THEN /\ last'.err = "UnknownSystemVar"
                      /\ ~last'.acc
                      /\ systems' = systems
               ELSE IF key \in VirtualNames
                 THEN /\ last'.err = "nil"
                      /\ last'.res = VirtualValue(s, key)
                      /\ ~last'.acc
                      /\ systems' = systems
               ELSE IF key \in DOMAIN systems[s]
                 THEN /\ last'.err = "nil"
                      /\ last'.res = systems[s][key]
                      /\ ~last'.acc
                      /\ systems' = systems
               ELSE IF ~ScopeHasGlobal(SysVars[key].Scope)
                 THEN /\ last'.err = "nil"
                      /\ last'.res = SysVars[key].Value
                      /\ ~last'.acc
                      /\ systems' = systems
               ELSE /\ last'.acc
                    /\ IF last'.err = "nil"
                         THEN /\ last'.res = GetGlobalSysVar(key)
                              /\ systems' = [systems EXCEPT ![s] = MapPut(@, key, last'.res)]
                         ELSE systems' = systems ]_vars

(* a get of a virtual variable whose name the session has set to           *)
(* something else                                                          *)
C6_Witness ==
  /\ last.op = "get"
  /\ last.key = TiDBCurrentTS
  /\ TiDBCurrentTS \in DOMAIN systems[last.sess]
  /\ systems[last.sess][TiDBCurrentTS] # last.res
  /\ last.res = FormatNat(StartTS[last.sess])

(* C7: a successful SetSessionSystemVar with a non-null value maps the     *)
(* lowercase name to the string the validator returned in the overlay of   *)
(* the calling session, and changes nothing else: not the global store,    *)
(* not another session's overlay, not another key of this overlay.         *)
C7_SetWritesOnlyOwnOverlay ==
  [][ (/\ last'.op = "set"
       /\ last'.err = "nil"
       /\ last'.datum # NullDatum)
      => \A s \in {last'.sess} : \A key \in {ToLower(last'.name)} :
         \A v \in {ValidateSetSystemVar(key, last'.datum.s)} :
            /\ v.err = "nil"
            /\ key \in DOMAIN systems'[s]
            /\ systems'[s][key] = v.val
            /\ OtherKeysUnchanged(s, key)
            /\ \A t \in Sessions \ {s} : systems'[t] = systems[t]
            /\ globalVars' = globalVars ]_vars

(* a clamped value was written while the session holds another key, the    *)
(* other session holds a different value and the global store holds a row  *)
C7_Witness ==
  /\ last.op = "set"
  /\ last.err = "nil"
  /\ last.sess = "s1"
  /\ last.datum = StringDatum(<<"-","5">>)
  /\ systems["s1"][last.key] = <<"0">>
  /\ TiDBCurrentTS \in DOMAIN systems["s1"]
  /\ DefaultWeekFormat \in DOMAIN systems["s2"]
  /\ systems["s2"][DefaultWeekFormat] = <<"3">>
  /\ DefaultWeekFormat \in DOMAIN globalVars

(* C8 as stated: for any two times t1 < t2 GoTimeToTS(t1) < GoTimeToTS(t2) *)
(* as unsigned 64-bit values, the low epochShiftBits bits of GoTimeToTS(t) *)
(* are zero and the remaining bits are the millisecond count of t.         *)
LowBitsZero(ts) == \A i \in 0..(epochShiftBits - 1) : Bit(ts, i) = 0

HighBitsAreMillis(t, ts) ==
  \A i \in epochShiftBits..63 : Bit(ts, i) = Bit(UnixMilli(t), i - epochShiftBits)

C8_StrictlyMonotonic ==
  (last.op = "ts")
  => /\ LessS(inp.t1, inp.t2) => LessU(last.ts1, last.ts2)
     /\ LowBitsZero(last.ts1)
     /\ HighBitsAreMillis(inp.t1, last.ts1)

(* C8 amended: for any two times t1 < t2 at or after the epoch             *)
(* GoTimeToTS(t1) <= GoTimeToTS(t2) as unsigned 64-bit values, and         *)
(* GoTimeToTS(t1) < GoTimeToTS(t2) when their millisecond counts differ;   *)
(* for every time t the low epochShiftBits bits of GoTimeToTS(t) are zero  *)
(* and the remaining bits are the low bits of the millisecond count of t.  *)
C8_MonotonicFromEpoch ==
  (last.op = "ts")
  => /\ (LessS(inp.t1, inp.t2) /\ ~IsNegWord(inp.t1)) =>
          /\ ~LessU(last.ts2, last.ts1)
          /\ UnixMilli(inp.t1) # UnixMilli(inp.t2) => LessU(last.ts1, last.ts2)
     /\ LowBitsZero(last.ts1)
     /\ HighBitsAreMillis(inp.t1, last.ts1)

(* two different present-day instants of the same millisecond *)
C8_Witness ==
  /\ last.op = "ts"
  /\ LessS(inp.t1, inp.t2)
  /\ ~IsNegWord(inp.t1)
  /\ last.ts1 = last.ts2
  /\ Bit(last.ts1, epochShiftBits) = 1
  /\ Bit(last.ts1, 58) = 1

(* C9: a value GetSessionSystemVar returned to session s for a             *)
(* global-scoped, non-virtual name stays the value s reads until s itself  *)
(* sets or deletes the name: the value returned is in the overlay of s     *)
(* after the call, no step but a set of that name by s changes or removes  *)
(* an overlay entry of s, and a get of a name in the overlay returns the   *)
(* overlay value; a get whose accessor call fails returns the error and    *)
(* leaves the overlay unchanged.                                           *)
IsStableName(k) ==
  /\ Cataloged(k)
  /\ k \notin VirtualNames
  /\ ScopeHasGlobal(SysVars[k].Scope)

IsCallOn(c, op, s, k) == c.op = op /\ c.sess = s /\ c.key = k

C9_SessionReadsAreStable ==
  [][ /\ \A s \in Sessions :
           \A k \in {x \in DOMAIN systems[s] \cup DOMAIN systems'[s] : IsStableName(x)} :
             /\ (k \in DOMAIN systems[s] /\ ~IsCallOn(last', "set", s, k)) =>
                   (k \in DOMAIN systems'[s] /\ systems'[s][k] = systems[s][k])
             /\ (k \in DOMAIN systems[s] /\ IsCallOn(last', "get", s, k)) =>
                   (last'.err = "nil" /\ last'.res = systems[s][k])
      /\ (last'.op = "get" /\ last'.err # "nil") => systems' = systems
      /\ (last'.op = "get" /\ last'.err = "nil" /\ IsStableName(last'.key)) =>
            (/\ last'.key \in DOMAIN systems'[last'.sess]
             /\ systems'[last'.sess][last'.key] = last'.res) ]_vars

(* session s1 reads again the value it read before, while the global store *)
(* holds another value and session s2 holds a third                        *)
C9_Witness ==
  /\ last.op = "get"
  /\ last.sess = "s1"
  /\ last.key = DefaultWeekFormat
  /\ last.err = "nil"
  /\ ~last.acc
  /\ last.res = SysVars[DefaultWeekFormat].Value
  /\ DefaultWeekFormat \in DOMAIN globalVars
  /\ globalVars[DefaultWeekFormat] # last.res
  /\ DefaultWeekFormat \in DOMAIN systems["s2"]
  /\ systems["s2"][DefaultWeekFormat] \notin {last.res, globalVars[DefaultWeekFormat]}

(* C10: setSnapshotTS sets SnapshotTS to 0 for the empty string, to the    *)
(* number for a string that parses as an unsigned 64-bit number and to     *)
(* GoTimeToTS of the parsed time for a date-time string, and whenever it   *)
(* returns an error SnapshotTS keeps the value it had before the call.     *)
C10_ErrorLeavesSnapshotTS ==
  [][ (last'.op = "snapshot")
      => /\ last'.err # "nil" => SnapshotTS' = SnapshotTS
         /\ (last'.err = "nil" /\ last'.sVal = <<>>) => SnapshotTS' = ZeroWord
         /\ (last'.err = "nil" /\ last'.path = "tso") =>
               SnapshotTS' = WordOf(ParseUint(last'.sVal).val)
         /\ (last'.err = "nil" /\ last'.path = "time") =>
               SnapshotTS' = GoTimeToTS(last'.t1) ]_vars

====
